---- MODULE Spec2Model ----
(***************************************************************************)
(* Model of src/bitcoin_trading_simulation.py: the price generator, the    *)
(* moving-average signal deriver and the portfolio simulator.              *)
(*                                                                         *)
(* Numbers.  Every number of the program is a Python/numpy float, an IEEE  *)
(* 754 binary64.  A float is modelled as a triple <<s, m, e>>: the finite  *)
(* non-zero value s * m * 2^e with sign s in {1, -1}, odd significand m    *)
(* below 2^53 and exponent e; 0.0 and -0.0 are <<1, <<>>, 0>> and          *)
(* <<-1, <<>>, 0>>, +inf and -inf are <<1, <<>>, 1>> and <<-1, <<>>, 1>>,  *)
(* nan is <<0, <<>>, 1>> (one nan: its sign and payload are not kept).     *)
(* Every operation rounds to nearest, ties to even, as the hardware does,  *)
(* so that cash - (cash / price) * price keeps its rounding residue.       *)
(*                                                                         *)
(* Libraries.  np.random.normal and Series.rolling(...).mean() are         *)
(* modelled by what numpy (1.17 and later) and pandas (1.5 and later) do.  *)
(*                                                                         *)
(* Days.  The DataFrames are indexed by day 0..N-1; the model keeps them   *)
(* as sequences, so day k is element k+1.                                  *)
(***************************************************************************)
EXTENDS Integers, Sequences, FiniteSets

VARIABLES
    pc,            \* where the program is
    days,          \* simulate_bitcoin_prices: its argument
    initial_price, \* simulate_bitcoin_prices: its argument
    volatility,    \* simulate_bitcoin_prices: its argument
    prices,        \* the price list (then Series) of simulate_bitcoin_prices
    short_window,  \* calculate_moving_averages: its argument
    long_window,   \* calculate_moving_averages: its argument
    signals,       \* the signals DataFrame: one row per day
    initial_cash,  \* simulate_trading: float(initial_cash)
    portfolio,     \* the portfolio DataFrame (the ledger): one row per day
    actions,       \* the action string of each day the loop has processed
    i              \* simulate_trading: the number of rows iterrows has yielded

vars == <<pc, days, initial_price, volatility, prices, short_window, long_window,
          signals, initial_cash, portfolio, actions, i>>

----------------------------------------------------------------------------
(* Bounds of the model.                                                    *)

MaxDays == 6
MaxWindow == 3
MaxRows == 3

----------------------------------------------------------------------------
(* Natural numbers of any size: the significand of a binary64 does not fit *)
(* a 32-bit integer.  A natural is the sequence of its digits in base      *)
(* Base, least significant first, without a leading zero digit; 0 is <<>>. *)

LimbBits == 15
Base == 2 ^ LimbBits

Abs(n) == IF n < 0 THEN -n ELSE n
Min(a, b) == IF a < b THEN a ELSE b
Max(a, b) == IF a > b THEN a ELSE b

RECURSIVE Trim(_)
Trim(m) ==
    IF Len(m) = 0 THEN <<>>
    ELSE IF m[Len(m)] = 0 THEN Trim(SubSeq(m, 1, Len(m) - 1))
    ELSE m

RECURSIVE Big(_)
Big(n) == IF n = 0 THEN <<>> ELSE <<n % Base>> \o Big(n \div Base)

Limb(m, k) == IF k <= Len(m) THEN m[k] ELSE 0
Rest(m) == IF Len(m) = 0 THEN <<>> ELSE Tail(m)

\* a + b + c for a carry c.
RECURSIVE BigAdd(_, _, _)
BigAdd(a, b, c) ==
    IF Len(a) = 0 /\ Len(b) = 0 THEN (IF c = 0 THEN <<>> ELSE <<c>>)
    ELSE LET s == Limb(a, 1) + Limb(b, 1) + c
         IN  <<s % Base>> \o BigAdd(Rest(a), Rest(b), s \div Base)

\* a - b - c for a borrow c, where a >= b + c.
RECURSIVE BigSubBorrow(_, _, _)
BigSubBorrow(a, b, c) ==
    IF Len(a) = 0 THEN <<>>
    ELSE LET d == a[1] - Limb(b, 1) - c
         IN  <<IF d < 0 THEN d + Base ELSE d>>
                 \o BigSubBorrow(Tail(a), Rest(b), IF d < 0 THEN 1 ELSE 0)

BigSub(a, b) == Trim(BigSubBorrow(a, b, 0))

RECURSIVE BigCmpFrom(_, _, _)
BigCmpFrom(a, b, k) ==
    IF k = 0 THEN 0
    ELSE IF a[k] > b[k] THEN 1
    ELSE IF a[k] < b[k] THEN -1
    ELSE BigCmpFrom(a, b, k - 1)

\* 1, 0 or -1 as a > b, a = b or a < b.
BigCmp(a, b) ==
    IF Len(a) > Len(b) THEN 1
    ELSE IF Len(a) < Len(b) THEN -1
    ELSE BigCmpFrom(a, b, Len(a))

\* a * k + c for one digit k and a carry c.
RECURSIVE BigMulLimb(_, _, _)
BigMulLimb(a, k, c) ==
    IF Len(a) = 0 THEN (IF c = 0 THEN <<>> ELSE <<c>>)
    ELSE LET p == a[1] * k + c
         IN  <<p % Base>> \o BigMulLimb(Tail(a), k, p \div Base)

RECURSIVE BigMul(_, _)
BigMul(a, b) ==
    IF Len(a) = 0 \/ Len(b) = 0 THEN <<>>
    ELSE Trim(BigAdd(BigMulLimb(a, b[1], 0), <<0>> \o BigMul(a, Tail(b)), 0))

\* a * 2^n and floor(a / 2^n).
ShiftLeft(a, n) ==
    IF Len(a) = 0 THEN <<>>
    ELSE [k \in 1..(n \div LimbBits) |-> 0] \o BigMulLimb(a, 2 ^ (n % LimbBits), 0)

ShiftRight(a, n) ==
    LET w == n \div LimbBits
        r == n % LimbBits
        b == IF w >= Len(a) THEN <<>> ELSE SubSeq(a, w + 1, Len(a))
    IN  Trim([k \in 1..Len(b) |->
                 (b[k] \div (2 ^ r)) + (Limb(b, k + 1) % (2 ^ r)) * (2 ^ (LimbBits - r))])

\* The number of binary digits of a, and its lowest set bit (a > 0).
BitLen(a) ==
    IF Len(a) = 0 THEN 0
    ELSE LimbBits * (Len(a) - 1)
             + (CHOOSE k \in 1..LimbBits : 2 ^ (k - 1) <= a[Len(a)] /\ a[Len(a)] < 2 ^ k)

RECURSIVE TrailingZeros(_)
TrailingZeros(a) ==
    IF a[1] = 0 THEN LimbBits + TrailingZeros(Tail(a))
    ELSE CHOOSE k \in 0..(LimbBits - 1) : a[1] % (2 ^ k) = 0 /\ a[1] % (2 ^ (k + 1)) # 0

Bit(a, j) == (Limb(a, (j \div LimbBits) + 1) \div (2 ^ (j % LimbBits))) % 2

\* Long division of n by d > 0, one binary digit at a time.  qr is
\* <<quotient, remainder>> so far; BigDivBits brings down the c digits of n
\* below digit j, BigDivStep all the j digits that are left, a limb at a time.
RECURSIVE BigDivBits(_, _, _, _, _)
BigDivBits(n, d, j, c, qr) ==
    IF c = 0 THEN qr
    ELSE LET r2 == BigMulLimb(qr[2], 2, Bit(n, j - 1))
         IN  IF BigCmp(r2, d) >= 0
             THEN BigDivBits(n, d, j - 1, c - 1, <<BigMulLimb(qr[1], 2, 1), BigSub(r2, d)>>)
             ELSE BigDivBits(n, d, j - 1, c - 1, <<BigMulLimb(qr[1], 2, 0), r2>>)

RECURSIVE BigDivStep(_, _, _, _)
BigDivStep(n, d, j, qr) ==
    IF j = 0 THEN qr
    ELSE LET c == Min(j, LimbBits)
         IN  BigDivStep(n, d, j - c, BigDivBits(n, d, j, c, qr))

\* Short division of n by one digit d > 0: the k lowest digits of n are
\* still to bring down and r is the remainder so far.
RECURSIVE BigDivLimb(_, _, _, _)
BigDivLimb(n, d, k, r) ==
    IF k = 0 THEN <<<<>>, r>>
    ELSE LET cur == r * Base + n[k]
             rest == BigDivLimb(n, d, k - 1, cur % d)
         IN  <<Append(rest[1], cur \div d), rest[2]>>

\* <<quotient, remainder>> of n by d > 0.
BigDivMod(n, d) ==
    IF Len(d) = 1
    THEN LET qr == BigDivLimb(n, d[1], Len(n), 0) IN <<Trim(qr[1]), Big(qr[2])>>
    ELSE BigDivStep(n, d, BitLen(n), <<<<>>, <<>>>>)

----------------------------------------------------------------------------
(* Floats: IEEE 754 binary64, round to nearest, ties to even.              *)

Precision == 53
MinExp == -1074
MaxExp == 1024

Zero == <<1, <<>>, 0>>
NegZero == <<-1, <<>>, 0>>
NaN == <<0, <<>>, 1>>
PInf == <<1, <<>>, 1>>
NInf == <<-1, <<>>, 1>>

IsNaN(x) == x = NaN
IsZero(x) == Len(x[2]) = 0 /\ x[3] = 0
IsFinite(x) == ~(Len(x[2]) = 0 /\ x[3] = 1)
\* 1 or -1 as the sign bit of x is clear or set; 0 for nan.
Sgn(x) == x[1]
Signbit(x) == x[1] < 0
ZeroOf(s) == IF s > 0 THEN Zero ELSE NegZero
InfOf(s) == IF s > 0 THEN PInf ELSE NInf

\* The float s * m * 2^e, for m of at most Precision digits and e >= MinExp.
Canon(s, m, e) ==
    IF Len(m) = 0 THEN ZeroOf(s)
    ELSE IF LimbBits * Len(m) + e > MaxExp /\ BitLen(m) + e > MaxExp THEN InfOf(s)
    ELSE IF m[1] % 2 = 1 THEN <<s, m, e>>
    ELSE LET tz == TrailingZeros(m)
         IN  <<s, ShiftRight(m, tz), e + tz>>

\* The binary64 nearest to the real s * v, where v = m * 2^e if ~sticky and
\* m * 2^e < v < (m + 1) * 2^e if sticky.
RoundFloat(s, m, e, sticky) ==
    LET q == Max(e + BitLen(m) - Precision, MinExp)
        sh == q - e
        \* a significand of three limbs or fewer has fewer than Precision digits
        exact == (LimbBits * Len(m) <= Precision /\ e >= MinExp) \/ sh <= 0
        keep == ShiftRight(m, sh)
        low == BigSub(m, ShiftLeft(keep, sh))
        c == BigCmp(low, ShiftLeft(<<1>>, sh - 1))
        up == c > 0 \/ (c = 0 /\ (sticky \/ Bit(keep, 0) = 1))
    IN  Canon(s, IF exact THEN m ELSE IF up THEN BigAdd(keep, <<>>, 1) ELSE keep,
                 IF exact THEN e ELSE q)

\* float(n) of an integer n: exact, an integer of the model has 32 bits.
F(n) == Canon(IF n < 0 THEN -1 ELSE 1, Big(Abs(n)), 0)

FNeg(x) == <<-x[1], x[2], x[3]>>

FAdd(x, y) ==
    IF IsNaN(x) \/ IsNaN(y) THEN NaN
    ELSE IF ~IsFinite(x) /\ ~IsFinite(y) THEN (IF x = y THEN x ELSE NaN)
    ELSE IF ~IsFinite(x) THEN x
    ELSE IF ~IsFinite(y) THEN y
    ELSE IF IsZero(x) /\ IsZero(y) THEN (IF x = y THEN x ELSE Zero)
    ELSE IF IsZero(x) THEN y
    ELSE IF IsZero(y) THEN x
    ELSE LET e == Min(x[3], y[3])
             a == ShiftLeft(x[2], x[3] - e)
             b == ShiftLeft(y[2], y[3] - e)
             c == BigCmp(a, b)
             same == x[1] = y[1]
             hi == IF c >= 0 THEN a ELSE b
             lo == IF c >= 0 THEN b ELSE a
         IN  \* an operand below a quarter of the other's last place is lost
             IF x[3] - y[3] > 2 * Precision THEN x
             ELSE IF y[3] - x[3] > 2 * Precision THEN y
             ELSE IF ~same /\ c = 0 THEN Zero
             ELSE RoundFloat(IF same \/ c > 0 THEN x[1] ELSE y[1],
                             IF same THEN BigAdd(a, b, 0) ELSE BigSub(hi, lo), e, FALSE)

FSub(x, y) == FAdd(x, FNeg(y))

FMul(x, y) ==
    IF IsNaN(x) \/ IsNaN(y) THEN NaN
    ELSE IF ~IsFinite(x) \/ ~IsFinite(y)
         THEN (IF IsZero(x) \/ IsZero(y) THEN NaN ELSE InfOf(Sgn(x) * Sgn(y)))
    ELSE IF IsZero(x) \/ IsZero(y) THEN ZeroOf(Sgn(x) * Sgn(y))
    ELSE RoundFloat(x[1] * y[1], BigMul(x[2], y[2]), x[3] + y[3], FALSE)

\* numpy float64 division: x / 0 is +-inf (nan for 0 / 0), never an exception.
FDiv(x, y) ==
    IF IsNaN(x) \/ IsNaN(y) THEN NaN
    ELSE IF ~IsFinite(x) /\ ~IsFinite(y) THEN NaN
    ELSE IF ~IsFinite(x) THEN InfOf(Sgn(x) * Sgn(y))
    ELSE IF ~IsFinite(y) THEN ZeroOf(Sgn(x) * Sgn(y))
    ELSE IF IsZero(y) THEN (IF IsZero(x) THEN NaN ELSE InfOf(Sgn(x) * Sgn(y)))
    ELSE IF IsZero(x) THEN ZeroOf(Sgn(x) * Sgn(y))
    ELSE LET k == Max(0, Precision + 2 + BitLen(y[2]) - BitLen(x[2]))
             qr == BigDivMod(ShiftLeft(x[2], k), y[2])
         IN  RoundFloat(x[1] * y[1], qr[1], x[3] - y[3] - k, Len(qr[2]) # 0)

\* The float nearest to n / d, as a literal such as -0.5 denotes it.
Rat(n, d) == FDiv(F(n), F(d))

\* The comparisons of IEEE floats: every comparison with nan is False, and
\* -0.0 equals 0.0.
FEq(x, y) == ~IsNaN(x) /\ ~IsNaN(y) /\ (x = y \/ (IsZero(x) /\ IsZero(y)))

\* 1, 0 or -1 as |x| > |y|, |x| = |y| or |x| < |y|, for finite non-zero x, y.
MagCmp(x, y) ==
    LET e == Min(x[3], y[3])
    IN  \* the lowest digit of one is above the highest digit of the other
        IF x[3] - y[3] >= Precision THEN 1
        ELSE IF y[3] - x[3] >= Precision THEN -1
        ELSE BigCmp(ShiftLeft(x[2], x[3] - e), ShiftLeft(y[2], y[3] - e))

FGt(x, y) ==
    IF IsNaN(x) \/ IsNaN(y) \/ x = y THEN FALSE
    ELSE IF IsZero(x) THEN ~IsZero(y) /\ Signbit(y)
    ELSE IF IsZero(y) THEN ~Signbit(x)
    ELSE IF x = PInf \/ y = NInf THEN TRUE
    ELSE IF x = NInf \/ y = PInf THEN FALSE
    ELSE IF x[1] # y[1] THEN x[1] > y[1]
    ELSE IF x[1] > 0 THEN MagCmp(x, y) > 0
    ELSE MagCmp(x, y) < 0

FLt(x, y) == FGt(y, x)
FGe(x, y) == FGt(x, y) \/ FEq(x, y)

----------------------------------------------------------------------------
(* The values the arguments and the random draws are taken from.           *)

DaysVals == (-1)..MaxDays
InitialPriceVals == {F(0), F(25)}
VolatilityVals == {F(-1), NegZero, F(0), F(1)}
NormalDraws == {F(-1), Rat(-1, 2), F(1)}
CashVals == {F(0), F(7)}
PriceVals == {F(-1), F(0), F(2), F(25)}
PositionVals == {NaN, F(-2), F(1), F(2)}

----------------------------------------------------------------------------
(* simulate_bitcoin_prices.                                                *)

\* Line 8, line 12 and np.sqrt(dt) of line 14.
dt == 1
drift == 0
sqrt_dt == 1

\* Mutant of NextPrice: the price is floored to stay positive.
NextPriceFloored(last, shock) ==
    LET next == FAdd(last, FMul(last, shock))
    IN  IF FGt(next, Zero) THEN next ELSE Rat(1, 100)

\* Lines 14-15: the next price after a shock.
NextPrice(last, shock) ==
    LET price_change == FMul(last, FAdd(FMul(F(drift), F(dt)), FMul(shock, F(sqrt_dt))))
    IN  FAdd(last, price_change)

\* Line 13: np.random.normal(0, volatility) is 0 + volatility * z for a
\* standard normal draw z.
Shock(vol, z) == FAdd(Zero, FMul(vol, z))

\* Lines 4-9: the call, with its arguments.
SimulatePricesCall ==
    /\ pc = "start"
    /\ \E d \in DaysVals, p \in InitialPriceVals, v \in VolatilityVals :
        /\ days' = d
        /\ initial_price' = p
        /\ volatility' = v
        /\ prices' = <<p>>
    /\ pc' = "generating"
    /\ UNCHANGED <<short_window, long_window, signals, initial_cash, portfolio, actions, i>>

\* Line 13: np.random.normal checks its scale before it draws, and refuses
\* one that is not nan and has its sign bit set: a negative one and -0.0.
ScaleRefused(scale) == ~IsNaN(scale) /\ Signbit(scale)

\* Lines 10-15: one iteration of range(days - 1).
GenStep ==
    /\ pc = "generating"
    /\ Len(prices) - 1 < days - 1
    /\ ~ScaleRefused(volatility)
    /\ \E z \in NormalDraws :
        prices' = Append(prices, NextPrice(prices[Len(prices)], Shock(volatility, z)))
    /\ UNCHANGED <<pc, days, initial_price, volatility, short_window, long_window,
                   signals, initial_cash, portfolio, actions, i>>

\* Line 13: np.random.normal(0, volatility) raises ValueError("scale < 0")
\* for a volatility it refuses, in the first iteration of the loop; nothing
\* catches it.
GenRaise ==
    /\ pc = "generating"
    /\ Len(prices) - 1 < days - 1
    /\ ScaleRefused(volatility)
    /\ pc' = "ValueError"
    /\ UNCHANGED <<days, initial_price, volatility, prices, short_window, long_window,
                   signals, initial_cash, portfolio, actions, i>>

\* Line 16.
GenReturn ==
    /\ pc = "generating"
    /\ Len(prices) - 1 >= days - 1
    /\ pc' = "generated"
    /\ UNCHANGED <<days, initial_price, volatility, prices, short_window, long_window,
                   signals, initial_cash, portfolio, actions, i>>

----------------------------------------------------------------------------
(* calculate_moving_averages.                                              *)

\* Lines 24-25: prices.rolling(window=w, min_periods=1, center=False).mean()
\* is pandas' roll_mean over the windows of a fixed indexer.  It keeps one
\* running sum over the days: a day removes the prices that left the window
\* and adds the prices that entered it, each with its own Kahan compensation
\* term, and it leaves out the prices that are nan.

\* Rolling._prep_values: an infinite price enters the windows as nan.
PrepValues(p) == [k \in 1..Len(p) |-> IF IsFinite(p[k]) THEN p[k] ELSE NaN]

\* Mutant of WindowStart: the window never drops a price.
WindowStartExpanding(w, k) == 0

\* The window of day k is the days WindowStart(w, k) .. WindowEnd(k) - 1.
WindowStart(w, k) == Max(k + 1 - w, 0)
WindowEnd(k) == k + 1

\* roll_mean's variables when it sets up a window whose first value is prev.
NewMean(prev) ==
    [nobs |-> 0, neg_ct |-> 0, sum_x |-> Zero,
     compensation_add |-> Zero, compensation_remove |-> Zero,
     num_consecutive_same_value |-> 0, prev_value |-> prev]

add_mean(st, val) ==
    IF ~FEq(val, val) THEN st
    ELSE LET y == FSub(val, st.compensation_add)
             t == FAdd(st.sum_x, y)
         IN  [st EXCEPT !.nobs = @ + 1,
                        !.compensation_add = FSub(FSub(t, st.sum_x), y),
                        !.sum_x = t,
                        !.neg_ct = IF Signbit(val) THEN @ + 1 ELSE @,
                        !.num_consecutive_same_value =
                            IF FEq(val, st.prev_value) THEN @ + 1 ELSE 1,
                        !.prev_value = val]

remove_mean(st, val) ==
    IF ~FEq(val, val) THEN st
    ELSE LET y == FSub(FNeg(val), st.compensation_remove)
             t == FAdd(st.sum_x, y)
         IN  [st EXCEPT !.nobs = @ - 1,
                        !.compensation_remove = FSub(FSub(t, st.sum_x), y),
                        !.sum_x = t,
                        !.neg_ct = IF Signbit(val) THEN @ - 1 ELSE @]

\* The values of days lo .. hi - 1 added to, and removed from, the window.
RECURSIVE AddRange(_, _, _, _)
AddRange(st, v, lo, hi) ==
    IF lo >= hi THEN st ELSE AddRange(add_mean(st, v[lo + 1]), v, lo + 1, hi)

RECURSIVE RemoveRange(_, _, _, _)
RemoveRange(st, v, lo, hi) ==
    IF lo >= hi THEN st ELSE RemoveRange(remove_mean(st, v[lo + 1]), v, lo + 1, hi)

\* roll_mean's variables after each of the days 0 .. n - 1.  A window that
\* starts at or after the end of the one before (w = 1) is set up afresh.
RECURSIVE RollStates(_, _, _)
RollStates(v, w, n) ==
    IF n = 0 THEN <<>>
    ELSE LET k == n - 1
             before == RollStates(v, w, k)
             s == WindowStart(w, k)
             e == WindowEnd(k)
             fresh == k = 0 \/ s >= WindowEnd(k - 1)
             kept == IF fresh THEN NewMean(v[s + 1])
                     ELSE RemoveRange(before[k], v, WindowStart(w, k - 1), s)
         IN  Append(before, AddRange(kept, v, IF fresh THEN s ELSE WindowEnd(k - 1), e))

\* The mean of a window: nan below minp observations; the value itself when
\* all its observations are the same; 0 when rounding gave the mean a sign
\* that no observation has.
calc_mean(minp, st) ==
    IF st.nobs >= minp /\ st.nobs > 0
    THEN LET result == FDiv(st.sum_x, F(st.nobs))
         IN  IF st.num_consecutive_same_value >= st.nobs THEN st.prev_value
             ELSE IF st.neg_ct = 0 /\ FLt(result, Zero) THEN Zero
             ELSE IF st.neg_ct = st.nobs /\ FGt(result, Zero) THEN Zero
             ELSE result
    ELSE NaN

roll_mean(v, w, minp) ==
    LET st == RollStates(v, w, Len(v))
    IN  [k \in 1..Len(v) |-> calc_mean(minp, st[k])]

\* The rolling mean of the series p, day by day.
RollingMean(p, w) == roll_mean(PrepValues(p), w, 1)

\* Lines 22-26.  The signal and positions columns do not exist yet.
MovingAverages(p, sw, lw) ==
    LET short == RollingMean(p, sw)
        long == RollingMean(p, lw)
    IN  [k \in 1..Len(p) |->
            [price |-> p[k],
             short_mavg |-> short[k],
             long_mavg |-> long[k],
             signal |-> NaN,
             positions |-> NaN]]

CalculateMovingAverages ==
    /\ pc = "generated"
    /\ \E sw \in 1..MaxWindow, lw \in 1..MaxWindow :
        /\ short_window' = sw
        /\ long_window' = lw
        /\ signals' = MovingAverages(prices, sw, lw)
    /\ pc' = "averaged"
    /\ UNCHANGED <<days, initial_price, volatility, prices, initial_cash, portfolio, actions, i>>

----------------------------------------------------------------------------
(* generate_trading_signals.                                               *)

\* Mutant of SignalOf: equal averages count as short above long.
SignalOfTieLong(row) ==
    IF FLt(row.short_mavg, row.long_mavg) THEN F(-1) ELSE F(1)

\* Lines 34-38: 0.0, then 1.0 where short > long, then -1.0 where short < long.
SignalOf(row) ==
    LET s0 == Zero
        s1 == IF FGt(row.short_mavg, row.long_mavg) THEN F(1) ELSE s0
    IN  IF FLt(row.short_mavg, row.long_mavg) THEN F(-1) ELSE s1

\* Series.diff(): nan on the first day, then the change since the day before.
Diff(col) == [k \in 1..Len(col) |-> IF k = 1 THEN NaN ELSE FSub(col[k], col[k - 1])]

\* Series.shift(1): nan on the first day, then the value of the day before.
Shift1(col) == [k \in 1..Len(col) |-> IF k = 1 THEN NaN ELSE col[k - 1]]

\* Mutant of Positions: the shift by one day is missing.
PositionsUnshifted(sigcol) == Diff(sigcol)

\* Line 41.
Positions(sigcol) == Shift1(Diff(sigcol))

\* Lines 34-42.
TradingSignals(sig) ==
    LET sigcol == [k \in 1..Len(sig) |-> SignalOf(sig[k])]
        pos == Positions(sigcol)
    IN  [k \in 1..Len(sig) |-> [sig[k] EXCEPT !.signal = sigcol[k], !.positions = pos[k]]]

GenerateTradingSignals ==
    /\ pc = "averaged"
    /\ signals' = TradingSignals(signals)
    /\ pc' = "signalled"
    /\ UNCHANGED <<days, initial_price, volatility, prices, short_window, long_window,
                   initial_cash, portfolio, actions, i>>

----------------------------------------------------------------------------
(* simulate_trading.                                                       *)

\* Mutant of NewPortfolio: the cash column starts empty.
NewPortfolioNoCash(sig, cash) ==
    [k \in 1..Len(sig) |->
        [price |-> sig[k].price, cash |-> Zero, btc |-> Zero, total_value |-> cash]]

\* Lines 48-52: every row starts as price, cash = float(initial_cash),
\* btc = 0.0, total_value = float(initial_cash).
NewPortfolio(sig, cash) ==
    [k \in 1..Len(sig) |->
        [price |-> sig[k].price, cash |-> cash, btc |-> Zero, total_value |-> cash]]

\* Mutant of CarryForward: the balances of the day before are not taken over.
CarryForwardStale(pf, k) == pf[k + 1]

\* Lines 64-66: day k > 0 takes over the cash and btc of day k-1.
CarryForward(pf, k) ==
    IF k > 0
    THEN [pf[k + 1] EXCEPT !.cash = pf[k].cash, !.btc = pf[k].btc]
    ELSE pf[k + 1]

\* Lines 68-73: the buy branch, with the day's action string.
BuyRow(r, price) ==
    LET btc_to_buy == FDiv(r.cash, price)
    IN  [r |-> [r EXCEPT !.btc = FAdd(r.btc, btc_to_buy),
                         !.cash = FSub(r.cash, FMul(btc_to_buy, price))],
         action |-> "BUY"]

\* Mutant of SellRow: the holdings are not cleared.
SellRowKeepsBtc(r, price) ==
    IF FGt(r.btc, Zero)
    THEN LET cash_received == FMul(r.btc, price)
         IN  [r |-> [r EXCEPT !.cash = FAdd(r.cash, cash_received)], action |-> "SELL"]
    ELSE [r |-> r, action |-> ""]

\* Mutant of SellRow: the guard on the holdings is missing.
SellRowUnguarded(r, price) ==
    LET cash_received == FMul(r.btc, price)
    IN  [r |-> [r EXCEPT !.cash = FAdd(r.cash, cash_received), !.btc = Zero],
         action |-> "SELL"]

\* Lines 74-80: the sell branch, with the day's action string.
SellRow(r, price) ==
    IF FGt(r.btc, Zero)
    THEN LET cash_received == FMul(r.btc, price)
         IN  [r |-> [r EXCEPT !.cash = FAdd(r.cash, cash_received), !.btc = Zero],
              action |-> "SELL"]
    ELSE [r |-> r, action |-> ""]

\* Mutant of IsBuy: any rise of the signal buys.
IsBuyAnyRise(row) == FGt(row.positions, Zero)

\* Line 68 and line 74: the triggers are exact float equalities.
IsBuy(row) == FEq(row.positions, F(2))
IsSell(row) == FEq(row.positions, F(-2))

\* Lines 61-80: the day's trade.
TradeRow(r, row) ==
    IF IsBuy(row) THEN BuyRow(r, row.price)
    ELSE IF IsSell(row) THEN SellRow(r, row.price)
    ELSE [r |-> r, action |-> ""]

\* Mutant of TotalValue: the holdings are not priced.
TotalValueUnpriced(r, row) == FAdd(r.cash, r.btc)

\* Line 82.
TotalValue(r, row) == FAdd(r.cash, FMul(r.btc, row.price))

\* Lines 60-82: one iteration of the loop, on day k.
DayRow(pf, row, k) ==
    LET t == TradeRow(CarryForward(pf, k), row)
    IN  [r |-> [t.r EXCEPT !.total_value = TotalValue(t.r, row)], action |-> t.action]

\* Lines 44-58: the call, with its argument.
SimulateTradingCall ==
    /\ pc = "signalled"
    /\ \E c \in CashVals :
        /\ initial_cash' = c
        /\ portfolio' = NewPortfolio(signals, c)
    /\ actions' = <<>>
    /\ i' = 0
    /\ pc' = "trading"
    /\ UNCHANGED <<days, initial_price, volatility, prices, short_window, long_window, signals>>

TradeStep ==
    /\ pc = "trading"
    /\ i < Len(signals)
    /\ LET d == DayRow(portfolio, signals[i + 1], i)
       IN  /\ portfolio' = [portfolio EXCEPT ![i + 1] = d.r]
           /\ actions' = Append(actions, d.action)
    /\ i' = i + 1
    /\ UNCHANGED <<pc, days, initial_price, volatility, prices, short_window, long_window,
                   signals, initial_cash>>

\* Line 88.
TradeReturn ==
    /\ pc = "trading"
    /\ i = Len(signals)
    /\ pc' = "traded"
    /\ UNCHANGED <<days, initial_price, volatility, prices, short_window, long_window,
                   signals, initial_cash, portfolio, actions, i>>

----------------------------------------------------------------------------
(* SpecTrading: simulate_trading called on any signals frame.  The function *)
(* reads only the price and positions columns.                              *)

FrameRows == [price : PriceVals, short_mavg : {NaN}, long_mavg : {NaN},
              signal : {NaN}, positions : PositionVals]
Frames == UNION {[1..n -> FrameRows] : n \in 1..MaxRows}

InitTrading ==
    /\ pc = "trading"
    /\ days = 0
    /\ initial_price = NaN
    /\ volatility = NaN
    /\ prices = <<>>
    /\ short_window = 0
    /\ long_window = 0
    /\ signals \in Frames
    /\ initial_cash \in CashVals
    /\ portfolio = NewPortfolio(signals, initial_cash)
    /\ actions = <<>>
    /\ i = 0

NextTrading == TradeStep \/ TradeReturn

SpecTrading == InitTrading /\ [][NextTrading]_vars

----------------------------------------------------------------------------
(* Spec: the pipeline of __main__ (lines 90-101), each function called     *)
(* with arguments of its parameters' types.                                *)

Init ==
    /\ pc = "start"
    /\ days = 0
    /\ initial_price = NaN
    /\ volatility = NaN
    /\ prices = <<>>
    /\ short_window = 0
    /\ long_window = 0
    /\ signals = <<>>
    /\ initial_cash = NaN
    /\ portfolio = <<>>
    /\ actions = <<>>
    /\ i = 0

Next ==
    \/ SimulatePricesCall
    \/ GenStep
    \/ GenRaise
    \/ GenReturn
    \/ CalculateMovingAverages
    \/ GenerateTradingSignals
    \/ SimulateTradingCall
    \/ TradeStep
    \/ TradeReturn

Spec == Init /\ [][Next]_vars

----------------------------------------------------------------------------
(* The ledger, by day.  Day k has been processed once k < i.               *)

Processed == 0..(i - 1)
Ledger(k) == portfolio[k + 1]
Sig(k) == signals[k + 1]
\* The balances day k starts from: those of day k-1, or the initial ones.
PrevCash(k) == IF k = 0 THEN initial_cash ELSE portfolio[k].cash
PrevBtc(k) == IF k = 0 THEN Zero ELSE portfolio[k].btc
\* The day's position_change is +2 (a buy trigger), -2 (a sell trigger).
BuyDay(k) == Sig(k).positions = F(2)
SellDay(k) == Sig(k).positions = F(-2)
PricesPositiveUpTo(k) == \A j \in 0..k : FGt(Sig(j).price, Zero)
FirstBuy(k) == BuyDay(k) /\ \A j \in 0..(k - 1) : ~BuyDay(j)
\* No buy of days 0..k divided by a price of 0 (the ledger holds no inf or nan).
NoZeroPriceBuyUpTo(k) == \A j \in 0..k : BuyDay(j) => ~IsZero(Sig(j).price)

----------------------------------------------------------------------------
(* Claims about simulate_trading, checked under SpecTrading.               *)

\* C1: on every processed day k, total_value[k] is cash[k] + holdings[k] *
\* price[k], with the balances as they are after the day's trade.
C1_TotalValue ==
    \A k \in Processed :
        Ledger(k).total_value = FAdd(Ledger(k).cash, FMul(Ledger(k).btc, Sig(k).price))

C1_Witness ==
    /\ pc = "traded"
    /\ \E k \in Processed :
        /\ FGt(Ledger(k).btc, Zero)
        /\ IsFinite(Ledger(k).total_value)
        /\ Ledger(k).total_value # Ledger(k).cash
        /\ Ledger(k).total_value # FAdd(Ledger(k).cash, Ledger(k).btc)

\* C2: with initial_cash >= 0, over any sequence of position_change values,
\* holdings >= 0 and cash >= 0 on every day.  It is stated here on the days up
\* to which every price is positive, the prices the trading rule is meant
\* for: there a negative balance can only come from the rule itself.
C2_NonNegative ==
    FGe(initial_cash, Zero) =>
        \A k \in Processed :
            PricesPositiveUpTo(k) =>
                FGe(Ledger(k).btc, Zero) /\ FGe(Ledger(k).cash, Zero)

\* C3: on every day whose position_change is +2, cash is 0 after the day,
\* holdings are the previous holdings plus previous cash / price, holdings
\* are > 0 whenever the price is > 0, and on the first buy day the holdings
\* are initial_cash / price.  It is stated here on the buys that have cash to
\* spend at a positive price, on days that no division by a price of 0 has
\* reached.
C3_Buy ==
    \A k \in Processed :
        (/\ BuyDay(k)
         /\ NoZeroPriceBuyUpTo(k)
         /\ FGt(Sig(k).price, Zero)
         /\ FGt(PrevCash(k), Zero)
         /\ FGe(PrevBtc(k), Zero))
        => /\ IsZero(Ledger(k).cash)
           /\ Ledger(k).btc = FAdd(PrevBtc(k), FDiv(PrevCash(k), Sig(k).price))
           /\ FGt(Ledger(k).btc, Zero)
           /\ (FirstBuy(k) => Ledger(k).btc = FDiv(initial_cash, Sig(k).price))

\* C4: on every day whose position_change is -2 and whose carried-forward
\* holdings are > 0, holdings are 0 after the day and cash is the previous
\* cash plus previous holdings * price.
C4_Sell ==
    \A k \in Processed :
        SellDay(k) /\ FGt(PrevBtc(k), Zero) =>
            /\ IsZero(Ledger(k).btc)
            /\ Ledger(k).cash = FAdd(PrevCash(k), FMul(PrevBtc(k), Sig(k).price))

C4_Witness ==
    \E k \in Processed :
        /\ SellDay(k)
        /\ FGt(PrevBtc(k), Zero)
        /\ IsFinite(PrevBtc(k))
        /\ FGt(Ledger(k).cash, PrevCash(k))
        /\ actions[k + 1] = "SELL"

\* C5: on every day whose position_change is -2 while the carried-forward
\* holdings are 0, nothing is sold: cash is the previous cash, holdings stay
\* 0 and the day's action is not SELL.
C5_SellNoOp ==
    \A k \in Processed :
        SellDay(k) /\ IsZero(PrevBtc(k)) =>
            /\ Ledger(k).cash = PrevCash(k)
            /\ IsZero(Ledger(k).btc)
            /\ actions[k + 1] = ""

C5_Witness ==
    \E k \in Processed :
        /\ k > 0
        /\ SellDay(k)
        /\ IsZero(PrevBtc(k))
        /\ FGt(PrevCash(k), Zero)
        /\ actions[k + 1] = ""

\* C6: on every day k >= 1 whose position_change is neither +2 nor -2 (nan
\* included), cash and holdings are those of day k-1 and total_value is
\* recomputed at the day's price.
C6_Hold ==
    \A k \in Processed :
        k >= 1 /\ ~BuyDay(k) /\ ~SellDay(k) =>
            /\ Ledger(k).cash = Ledger(k - 1).cash
            /\ Ledger(k).btc = Ledger(k - 1).btc
            /\ actions[k + 1] = ""
            /\ Ledger(k).total_value =
                   FAdd(Ledger(k - 1).cash, FMul(Ledger(k - 1).btc, Sig(k).price))

C6_Witness ==
    /\ \E k \in Processed :
        /\ k >= 1
        /\ Sig(k).positions = F(1)
        /\ FGt(Ledger(k - 1).btc, Zero)
        /\ IsFinite(Ledger(k).total_value)
        /\ Ledger(k).total_value # Ledger(k - 1).total_value
    /\ \E j \in Processed : j >= 1 /\ IsNaN(Sig(j).positions)

----------------------------------------------------------------------------
(* Claims about the pipeline, checked under Spec.                          *)

Signalled == pc \in {"signalled", "trading", "traded"}
AllDays == 0..(Len(signals) - 1)
SignalAt(k) == signals[k + 1].signal
FullReversalUp(k) == k >= 2 /\ SignalAt(k - 2) = F(-1) /\ SignalAt(k - 1) = F(1)
FullReversalDown(k) == k >= 2 /\ SignalAt(k - 2) = F(1) /\ SignalAt(k - 1) = F(-1)

\* C7: a buy is executed on day k exactly when signal[k-2] = -1 and
\* signal[k-1] = +1, and a sell is attempted on day k (the sell branch is
\* taken, and it sells when holdings are > 0) exactly when signal[k-2] = +1
\* and signal[k-1] = -1; no other change of the signal trades.
C7_ExecutionLag ==
    \A k \in Processed :
        /\ actions[k + 1] = "BUY" <=> FullReversalUp(k)
        /\ SellDay(k) <=> FullReversalDown(k)
        /\ actions[k + 1] = "SELL" <=> (FullReversalDown(k) /\ FGt(PrevBtc(k), Zero))

C7_Witness ==
    /\ pc = "traded"
    /\ \E k \in Processed : actions[k + 1] = "BUY" /\ FGt(Ledger(k).btc, Zero)
    /\ \E k \in Processed : actions[k + 1] = "SELL"
    /\ \E k \in Processed :
        /\ k >= 2
        /\ IsZero(SignalAt(k - 2))
        /\ ~IsZero(SignalAt(k - 1))
        /\ actions[k + 1] = ""

\* C8: day 0 of the ledger has holdings 0, cash initial_cash and
\* total_value initial_cash, and no action is taken on day 0.
C8_DayZero ==
    pc \in {"trading", "traded"} /\ i >= 1 =>
        /\ IsZero(Ledger(0).btc)
        /\ Ledger(0).cash = initial_cash
        /\ Ledger(0).total_value = initial_cash
        /\ actions[1] = ""

C8_Witness ==
    /\ pc = "traded"
    /\ FGt(initial_cash, Zero)
    /\ ~IsZero(Ledger(0).price)
    /\ Ledger(0).cash = initial_cash
    /\ \E k \in Processed : actions[k + 1] = "BUY"

\* The sum of the prices of days lo..hi.
RECURSIVE SumDays(_, _, _)
SumDays(p, lo, hi) == IF hi < lo THEN Zero ELSE FAdd(SumDays(p, lo, hi - 1), p[hi + 1])

\* The mean of the min(k+1, w) most recent prices ending on day k.
WindowMean(p, w, k) ==
    LET n == IF k + 1 < w THEN k + 1 ELSE w
    IN  FDiv(SumDays(p, k - n + 1, k), F(n))

\* C9: when generate_trading_signals returns, on every day k each moving
\* average is the mean of the min(k+1, w) most recent prices ending on day
\* k, a finite value that only the prices of days 0..k enter, and signal[k]
\* is +1, -1 or 0 as the short average is above, below or equal to the long
\* one.
C9_MovingAverages ==
    pc = "signalled" =>
        \A k \in AllDays :
            LET row == signals[k + 1]
            IN  /\ row.short_mavg = WindowMean(prices, short_window, k)
                /\ row.long_mavg = WindowMean(prices, long_window, k)
                /\ IsFinite(row.short_mavg) /\ IsFinite(row.long_mavg)
                /\ (FGt(row.short_mavg, row.long_mavg) => row.signal = F(1))
                /\ (FLt(row.short_mavg, row.long_mavg) => row.signal = F(-1))
                /\ (FEq(row.short_mavg, row.long_mavg) => IsZero(row.signal))

C9_Witness ==
    /\ pc = "signalled"
    /\ 1 < short_window /\ short_window < long_window /\ long_window < Len(prices)
    /\ \E k \in AllDays : SignalAt(k) = F(1) /\ k >= long_window
    /\ \E k \in AllDays : SignalAt(k) = F(-1)
    /\ \E k \in AllDays : IsZero(SignalAt(k)) /\ k >= 1

ConstantPrices == \A k \in 1..Len(prices) : FEq(prices[k], prices[1])

\* C10: on a constant price series, whatever the windows, the signal is 0
\* on every day, no buy or sell fires, and total_value is initial_cash on
\* every day of the ledger, the last included.
C10_FlatPrices ==
    Signalled /\ ConstantPrices =>
        /\ \A k \in AllDays : IsZero(SignalAt(k))
        /\ \A k \in AllDays : ~BuyDay(k) /\ ~SellDay(k)
        /\ pc \in {"trading", "traded"} =>
               \A k \in Processed :
                   /\ actions[k + 1] = ""
                   /\ FEq(Ledger(k).total_value, initial_cash)

C10_Witness ==
    /\ pc = "traded"
    /\ ConstantPrices
    /\ Len(prices) >= 4
    /\ ~IsZero(prices[1])
    /\ short_window = 2 /\ long_window = 3
    /\ FGt(initial_cash, Zero)
    /\ FEq(Ledger(Len(prices) - 1).total_value, initial_cash)

----------------------------------------------------------------------------
(* Claims about simulate_bitcoin_prices, checked under Spec.               *)

ValidParameters == days >= 1 /\ FGt(initial_price, Zero) /\ FGe(volatility, Zero)
Returned == pc \notin {"start", "generating", "ValueError"}

\* C11: called with days < 1, a non-positive initial_price or a negative
\* volatility, simulate_bitcoin_prices fails instead of returning a series.
C11_InvalidParameter ==
    pc # "start" /\ ~ValidParameters => ~Returned

\* C14: for days >= 1 the returned series has exactly `days` prices, the
\* first is initial_price (alone when days = 1), and each later price is the
\* previous price plus the previous price times the shock drawn, unclamped.
C14_PriceSeries ==
    Returned /\ days >= 1 =>
        /\ Len(prices) = days
        /\ prices[1] = initial_price
        /\ \A k \in 1..(Len(prices) - 1) :
            \E z \in NormalDraws :
                prices[k + 1] = FAdd(prices[k], FMul(prices[k], FMul(volatility, z)))

C14_Witness ==
    /\ pc = "generated"
    /\ days >= 4
    /\ Len(prices) = days
    /\ FGt(volatility, Zero)
    /\ \E k \in 2..Len(prices) : IsZero(prices[k]) /\ FGt(prices[k - 1], Zero)
    /\ \E k \in 2..Len(prices) : FGt(prices[k], prices[k - 1])

C14_WitnessOneDay ==
    pc = "generated" /\ days = 1 /\ prices = <<initial_price>> /\ FGt(initial_price, Zero)

----------------------------------------------------------------------------
(* More claims about simulate_trading.                                     *)

FiniteRow(r) == IsFinite(r.cash) /\ IsFinite(r.btc) /\ IsFinite(r.total_value)

\* C12: a buy trigger on a day whose price is 0 makes simulate_trading fail
\* on that day: it never goes past such a day, and it never returns a ledger
\* with an infinite or undefined cash, holdings or total_value.
C12_InvalidPrice ==
    /\ \A k \in Processed : ~(BuyDay(k) /\ IsZero(Sig(k).price))
    /\ pc = "traded" => \A k \in Processed : FiniteRow(Ledger(k))

\* The balances after a day that starts from cash c and holdings h.
AfterDay(c, h, row) ==
    IF row.positions = F(2)
    THEN [cash |-> FSub(c, FMul(FDiv(c, row.price), row.price)),
          btc |-> FAdd(h, FDiv(c, row.price))]
    ELSE IF row.positions = F(-2) /\ FGt(h, Zero)
    THEN [cash |-> FAdd(c, FMul(h, row.price)), btc |-> Zero]
    ELSE [cash |-> c, btc |-> h]

\* C13: the ledger has one row per day of the price series, in day order,
\* row k carrying the price of day k; the days are processed in order (a day
\* not yet processed still holds its initial row) and the cash and holdings
\* of day k are those of day k-1 after day k's trade.
C13_Ledger ==
    pc \in {"trading", "traded"} =>
        /\ Len(portfolio) = Len(prices)
        /\ Len(actions) = i
        /\ pc = "traded" => i = Len(prices)
        /\ \A k \in 0..(Len(prices) - 1) :
            /\ Ledger(k).price = prices[k + 1]
            /\ k >= i => Ledger(k).cash = initial_cash /\ IsZero(Ledger(k).btc)
            /\ k < i =>
                   LET a == AfterDay(PrevCash(k), PrevBtc(k), Sig(k))
                   IN  Ledger(k).cash = a.cash /\ Ledger(k).btc = a.btc

C13_Witness ==
    /\ pc = "traded"
    /\ Len(prices) >= 5
    /\ \E k \in Processed : actions[k + 1] = "BUY" /\ FGt(Ledger(k).btc, Zero) /\ k + 1 < i
    /\ \E k \in Processed : actions[k + 1] = "SELL" /\ FGt(Ledger(k).cash, Zero)
    /\ \E k \in 1..(Len(prices) - 1) : prices[k + 1] # prices[k]

----------------------------------------------------------------------------
(* Claims about the crossings, checked under Spec.                         *)

ShortAbove(d) == FGt(signals[d + 1].short_mavg, signals[d + 1].long_mavg)
ShortBelow(d) == FLt(signals[d + 1].short_mavg, signals[d + 1].long_mavg)
CrossesAbove(d) == d >= 1 /\ ~ShortAbove(d - 1) /\ ShortAbove(d)
CrossesBelow(d) == d >= 1 /\ ~ShortBelow(d - 1) /\ ShortBelow(d)

\* C16: whenever the short average crosses above the long one on day d (not
\* above on day d-1, above on day d) a buy is executed on day d+1, and
\* whenever it crosses below while holdings are > 0 a sell is executed on day
\* d+1.
C16_EveryCrossingTrades ==
    \A k \in Processed :
        /\ CrossesAbove(k - 1) => actions[k + 1] = "BUY"
        /\ CrossesBelow(k - 1) /\ FGt(PrevBtc(k), Zero) => actions[k + 1] = "SELL"

----------------------------------------------------------------------------
(* Claims about the ledger as a whole, checked under SpecTrading.          *)

\* C17: on every day of the ledger the portfolio is all cash or all
\* holdings: cash is 0 or holdings are 0.
C17_NeverPartiallyInvested ==
    \A k \in Processed : IsZero(Ledger(k).cash) \/ IsZero(Ledger(k).btc)

\* C18: on every day k >= 1, whatever the day does, total_value[k] is the
\* previous cash plus the previous holdings at the day's price.
C18_ValuePreserving ==
    \A k \in Processed :
        k >= 1 =>
            Ledger(k).total_value =
                FAdd(Ledger(k - 1).cash, FMul(Ledger(k - 1).btc, Sig(k).price))

Executed(k) == actions[k + 1] # ""
\* Day j is a buy trigger before day k with no executed sell in between.
BuyBefore(j, k) ==
    /\ j < k
    /\ BuyDay(j)
    /\ \A m \in (j + 1)..(k - 1) : actions[m + 1] # "SELL"

\* C19: the first executed trade is a BUY; every executed SELL follows a BUY
\* with no executed SELL in between; and a BUY trigger that follows a BUY
\* with no executed SELL in between leaves cash and holdings unchanged.
C19_Ordering ==
    \A k \in Processed :
        /\ (Executed(k) /\ \A j \in 0..(k - 1) : ~Executed(j)) => actions[k + 1] = "BUY"
        /\ actions[k + 1] = "SELL" =>
               \E j \in 0..(k - 1) : actions[j + 1] = "BUY" /\ BuyBefore(j, k)
        /\ (BuyDay(k) /\ \E j \in 0..(k - 1) : BuyBefore(j, k)) =>
               /\ actions[k + 1] = "BUY"
               /\ Ledger(k).cash = PrevCash(k)
               /\ Ledger(k).btc = PrevBtc(k)

\* Every buy of days 0..k spent its cash exactly: it divided by no price of
\* 0 and the subtraction of line 71 left no rounding residue.
ExactBuysUpTo(k) ==
    \A j \in 0..k : BuyDay(j) => ~IsZero(Sig(j).price) /\ IsZero(Ledger(j).cash)

\* C17, C18 and C19 on the days up to which every buy spent its cash exactly.
C17_WithExactBuys ==
    \A k \in Processed :
        ExactBuysUpTo(k) => IsZero(Ledger(k).cash) \/ IsZero(Ledger(k).btc)

C18_WithExactBuys ==
    \A k \in Processed :
        k >= 1 /\ ExactBuysUpTo(k) =>
            Ledger(k).total_value =
                FAdd(Ledger(k - 1).cash, FMul(Ledger(k - 1).btc, Sig(k).price))

C19_WithExactBuys ==
    \A k \in Processed :
        /\ (Executed(k) /\ \A j \in 0..(k - 1) : ~Executed(j)) => actions[k + 1] = "BUY"
        /\ actions[k + 1] = "SELL" =>
               \E j \in 0..(k - 1) : actions[j + 1] = "BUY" /\ BuyBefore(j, k)
        /\ (BuyDay(k) /\ ExactBuysUpTo(k) /\ \E j \in 0..(k - 1) : BuyBefore(j, k)) =>
               /\ actions[k + 1] = "BUY"
               /\ Ledger(k).cash = PrevCash(k)
               /\ Ledger(k).btc = PrevBtc(k)

----------------------------------------------------------------------------
(* The warm-up of the moving averages, checked under Spec.                 *)

MinWindow == IF short_window < long_window THEN short_window ELSE long_window
NoTrade(k) == actions[k + 1] = "" /\ ~BuyDay(k) /\ ~SellDay(k)

\* C20: signal[d] is 0 on every day d < min(short_window, long_window); no
\* buy or sell is executed on a day k < min(short_window, long_window) + 2,
\* so never on days 0, 1 and 2; and with short_window = long_window no trade
\* ever fires.
C20_WarmUp ==
    Signalled =>
        /\ \A k \in AllDays : k < MinWindow => IsZero(SignalAt(k))
        /\ \A k \in Processed : k < MinWindow + 2 \/ k <= 2 => NoTrade(k)
        /\ short_window = long_window =>
               /\ \A k \in AllDays : IsZero(SignalAt(k))
               /\ \A k \in Processed : NoTrade(k)

C20_Witness ==
    /\ pc = "traded"
    /\ MinWindow = 2
    /\ short_window # long_window
    /\ Len(prices) >= MinWindow + 3
    /\ ~IsZero(SignalAt(MinWindow))
    /\ actions[MinWindow + 3] = "BUY"
    /\ FGt(Ledger(MinWindow + 2).btc, Zero)
    /\ IsFinite(Ledger(MinWindow + 2).btc)

====
